---- MODULE Spec2Model ----
(***************************************************************************)
(* Model of the Trezor PIN entry UI, src/pin.go (package trezor).          *)
(*                                                                         *)
(* GetPIN acquires the terminal (termbox.Init), then loops: render the     *)
(* frame, poll one event, update cursorX / cursorY / pin, clamp the        *)
(* cursor.  It returns on Enter (the PIN) or on 'q' / Ctrl-C (the error    *)
(* ErrUserCancelledInput); the deferred termbox.Close runs on those        *)
(* returns.                                                                *)
(*                                                                         *)
(* Strings are sequences of one-character strings (one element per rune).  *)
(* The position of the goroutine inside GetPIN is pc:                      *)
(*   "idle"     GetPIN is not running and has not returned anything yet    *)
(*   "render"   at the top of the for loop (line 65)                       *)
(*   "poll"     the frame is flushed, blocked in termbox.PollEvent (90)    *)
(*   "update"   an event has been polled, lines 91-116 are about to run    *)
(*   "clamp"    the switch has run, lines 118-119 are about to run         *)
(*   "deferred" a return statement has set the results, the deferred       *)
(*              termbox.Close has not run yet                              *)
(*   "done"     GetPIN has returned to its caller                          *)
(***************************************************************************)
EXTENDS Integers, Sequences, FiniteSets, TLC

VARIABLES
    pc,         \* position of the goroutine in GetPIN
    session,    \* number of calls of GetPIN so far
    prompt,     \* the argument of the running call
    cursorX,    \* local cursorX (column)
    cursorY,    \* local cursorY (row)
    pin,        \* local pin
    event,      \* local event of the current loop iteration
    retPin,     \* first result of GetPIN
    retErr,     \* second result of GetPIN
    termOpen,   \* TRUE between a successful termbox.Init and termbox.Close
    closeCalls, \* calls of termbox.Close made by the running / last call
    flushed,    \* the prompt and locals the last flushed frame was drawn from
    script,     \* events a scripted terminal still has to deliver
    trace,      \* events delivered by a scripted terminal in this call,
                \* each with the locals at the moment of delivery
    calls       \* termbox calls a scripted terminal received in this call

vars == <<pc, session, prompt, cursorX, cursorY, pin, event, retPin, retErr,
          termOpen, closeCalls, flushed, script, trace, calls>>

(***************************************************************************)
(* Bounds of the model.                                                    *)
(***************************************************************************)
\* longest accumulated PIN for which a further select is delivered (Spec)
MaxPinLen == 2
\* calls of GetPIN made one after the other
MaxSessions == 2
\* longest generated script of a scripted terminal (SpecScripted)
MaxScriptLen == 4

(***************************************************************************)
(* termbox events: the fields of termbox.Event that GetPIN reads.          *)
(***************************************************************************)
EventKey == "EventKey"
EventResize == "EventResize"
EventNone == "EventNone"

KeyArrowUp == "KeyArrowUp"
KeyArrowDown == "KeyArrowDown"
KeyArrowLeft == "KeyArrowLeft"
KeyArrowRight == "KeyArrowRight"
KeySpace == "KeySpace"
KeyBackspace == "KeyBackspace"
KeyBackspace2 == "KeyBackspace2"
KeyEnter == "KeyEnter"
KeyCtrlC == "KeyCtrlC"
KeyTab == "KeyTab"
\* the zero value of the Key field (a character event carries no key)
KeyZero == "KeyZero"
\* the zero value of the Ch field (a key event carries no character)
ChZero == "ChZero"

Keys ==
    {KeyArrowUp, KeyArrowDown, KeyArrowLeft, KeyArrowRight, KeySpace,
     KeyBackspace, KeyBackspace2, KeyEnter, KeyCtrlC, KeyTab}

Chars == {"q", "a"}

KeyPress(k) == [Type |-> EventKey, Key |-> k, Ch |-> ChZero]

CharPress(c) == [Type |-> EventKey, Key |-> KeyZero, Ch |-> c]

\* key events as termbox delivers them: a key or a character, never both
KeyEvents == {KeyPress(k) : k \in Keys} \cup {CharPress(c) : c \in Chars}

\* events of another type; GetPIN must not look at their other fields, so
\* these carry every combination a key event can carry and the zero values
NonKeyEvents ==
    {[Type |-> t, Key |-> e.Key, Ch |-> e.Ch] :
        t \in {EventResize},
        e \in KeyEvents \cup {[Key |-> KeyZero, Ch |-> ChZero]}}

Events == KeyEvents \cup NonKeyEvents

\* value of the local `event` outside the block that declares it
NoEvent == [Type |-> EventNone, Key |-> KeyZero, Ch |-> ChZero]

(***************************************************************************)
(* Results.                                                                *)
(***************************************************************************)
Nil == "nil"
ErrUserCancelledInput == "user cancelled PIN entry"
\* the error a failing termbox.Init returns
ErrInit == "termbox.Init failed"

\* retErr before GetPIN has returned anything
NoResult == "no result"
\* retPin before GetPIN has returned anything: a sequence, as every PIN is,
\* that no sequence of digits equals
NoPin == <<NoResult>>

(***************************************************************************)
(* Pure helpers of GetPIN.                                                 *)
(***************************************************************************)
\* a clamp that wraps around to the opposite limit
clampWraps(x, min, max) ==
    IF x < min THEN max
    ELSE IF x > max THEN min
    ELSE x

\* a clamp that forgets the upper limit
clampNoMax(x, min, max) ==
    IF x < min THEN min ELSE x

clamp(x, min, max) ==
    IF x < min THEN min
    ELSE IF x > max THEN max
    ELSE x

\* a keypad numbered from zero
keypadFromZero ==
    << <<"6", "7", "8">>,
       <<"3", "4", "5">>,
       <<"0", "1", "2">> >>

\* rows are indexed by cursorY and columns by cursorX, both from 0 in the
\* source and from 1 here
keypad ==
    << <<"7", "8", "9">>,
       <<"4", "5", "6">>,
       <<"1", "2", "3">> >>

\* the lookup with row and column exchanged
PressTransposed(cx, cy) == keypad[cx + 1][cy + 1]

\* keypad[cursorY][cursorX]
Press(cx, cy) == keypad[cy + 1][cx + 1]

\* a slice that drops the first character instead of the last
DropFirst(s) == SubSeq(s, 2, Len(s))

\* pin[:len(pin)-1]
DropLast(s) == SubSeq(s, 1, Len(s) - 1)

\* a delete whose length test is off by one
BackspaceOffByOne(p) == IF Len(p) > 1 THEN DropLast(p) ELSE p

\* if len(pin) > 0 { pin = pin[:len(pin)-1] }
Backspace(p) == IF Len(p) > 0 THEN DropLast(p) ELSE p

\* locals that start on the top-left cell
InitialLocalsTopLeft == [cursorX |-> 0, cursorY |-> 0, pin |-> << >>]

\* var ( cursorX = 1; cursorY = 1; pin string )
InitialLocals == [cursorX |-> 1, cursorY |-> 1, pin |-> << >>]

IsQuit(e) == e.Ch = "q" \/ e.Key = KeyCtrlC

(***************************************************************************)
(* Rendering.                                                              *)
(***************************************************************************)
MaskGlyph == "●"

PinLabel ==
    <<"P", "I", "N", ":", " ">>

LegendMove ==
    <<"[", "A", "r", "r", "o", "w", " ", "k", "e", "y", "s", "]", ":", " ",
      "m", "o", "v", "e", " ", "c", "u", "r", "s", "o", "r">>

LegendSelect ==
    <<"[", "S", "p", "a", "c", "e", "]", ":", " ", " ", " ", " ", " ", " ",
      "p", "r", "e", "s", "s", " ", "b", "u", "t", "t", "o", "n", " ",
      "u", "n", "d", "e", "r", " ", "c", "u", "r", "s", "o", "r">>

LegendDelete ==
    <<"[", "B", "a", "c", "k", "s", "p", "a", "c", "e", "]", ":", " ", " ",
      "d", "e", "l", "e", "t", "e">>

LegendSubmit ==
    <<"[", "E", "n", "t", "e", "r", "]", ":", " ", " ", " ", " ", " ", " ",
      "s", "u", "b", "m", "i", "t", " ", "P", "I", "N">>

LegendQuit ==
    <<"[", "q", "]", ":", " ", " ", " ", " ", " ", " ", " ", " ", " ", " ",
      "e", "x", "i", "t", " ", "w", "i", "t", "h", "o", "u", "t", " ",
      "s", "u", "b", "m", "i", "t", "t", "i", "n", "g", " ", "P", "I", "N">>

\* the draw buffer after termbox.Clear: no cell set
ClearCells == [p \in {} |-> MaskGlyph]

\* printStr: one termbox.SetCell per rune, at columns x, x+1, ...
printStr(cells, x, y, s) ==
    [p \in DOMAIN cells \cup {<<x + i - 1, y>> : i \in 1..Len(s)} |->
        IF p[2] = y /\ p[1] >= x /\ p[1] < x + Len(s)
        THEN s[p[1] - x + 1]
        ELSE cells[p]]

\* a mask that lets the characters through
MaskOfNothing(s) == s

\* strings.Map(func(rune) rune { return '●' }, pin)
MaskOf(s) == [i \in 1..Len(s) |-> MaskGlyph]

\* a terminal cursor with the two axes exchanged
CursorCellSwapped(cx, cy) == <<cy + 3, cx + 2>>

\* termbox.SetCursor(cursorX+3, cursorY+2): <<column, row>>
CursorCell(cx, cy) == <<cx + 3, cy + 2>>

\* the frame of one Render block: the cells set and the terminal cursor
Frame(pr, p, cx, cy) ==
    LET c0 == ClearCells
        c1 == printStr(c0, 0, 0, pr)
        c2 == printStr(c1, 3, 2, <<MaskGlyph, MaskGlyph, MaskGlyph>>)
        c3 == printStr(c2, 3, 3, <<MaskGlyph, MaskGlyph, MaskGlyph>>)
        c4 == printStr(c3, 3, 4, <<MaskGlyph, MaskGlyph, MaskGlyph>>)
        c5 == printStr(c4, 0, 6, PinLabel \o MaskOf(p))
        c6 == printStr(c5, 0, 9, LegendMove)
        c7 == printStr(c6, 0, 10, LegendSelect)
        c8 == printStr(c7, 0, 11, LegendDelete)
        c9 == printStr(c8, 0, 12, LegendSubmit)
        c10 == printStr(c9, 0, 13, LegendQuit)
    IN  [cells |-> c10, cursor |-> CursorCell(cx, cy)]

\* the display before the first flush
NoFrame == [cells |-> ClearCells, cursor |-> <<-1, -1>>]

\* flushed before the first flush
NoFlush == [prompt |-> << >>, pin |-> << >>, cursorX |-> -4, cursorY |-> -3]

\* what the last termbox.Flush put on the display
screen ==
    IF flushed = NoFlush
    THEN NoFrame
    ELSE Frame(flushed.prompt, flushed.pin, flushed.cursorX, flushed.cursorY)

\* prompts a caller passes
Prompts == {<< >>, <<"P", "I", "N", "?">>}

(***************************************************************************)
(* Scripted terminal: the events a test feeds to GetPIN.                   *)
(***************************************************************************)
Up == KeyPress(KeyArrowUp)
Down == KeyPress(KeyArrowDown)
Left == KeyPress(KeyArrowLeft)
Right == KeyPress(KeyArrowRight)
Select == KeyPress(KeySpace)
Delete == KeyPress(KeyBackspace)
Enter == KeyPress(KeyEnter)
QuitCh == CharPress("q")
QuitCtrlC == KeyPress(KeyCtrlC)
Resize == [Type |-> EventResize, Key |-> KeyZero, Ch |-> ChZero]

\* [down, right, select, up, left, select, select, enter]
Scenario1 == <<Down, Right, Select, Up, Left, Select, Select, Enter>>

\* [select, backspace, select, quit]
Scenario2 == <<Select, Delete, Select, QuitCh>>

ScriptEvents == {Down, Select, Delete, Enter, QuitCh, QuitCtrlC, Resize}

\* calls of a live terminal, which keeps no log
NoLog == <<"no log">>

\* the log after the calls cs
Logged(cs) == IF calls = NoLog THEN NoLog ELSE calls \o cs

\* the log of a call of GetPIN that has called termbox.Init
Started == IF calls = NoLog THEN NoLog ELSE <<"Init">>

\* the termbox calls of one Render block, lines 68-85
RenderCalls ==
    <<"Clear", "printStr", "printStr", "printStr", "printStr", "printStr",
      "printStr", "printStr", "printStr", "printStr", "SetCursor", "Flush">>

SeqsUpTo(S, n) == UNION {[1..k -> S] : k \in 0..n}

Scripts == SeqsUpTo(ScriptEvents, MaxScriptLen) \cup {Scenario1, Scenario2}

(***************************************************************************)
(* Initial state: GetPIN has not been called.  The locals do not exist     *)
(* yet; they hold the Go zero values until lines 35-39 set them.           *)
(***************************************************************************)
InitCommon ==
    /\ pc = "idle"
    /\ session = 0
    /\ prompt = << >>
    /\ cursorX = 0
    /\ cursorY = 0
    /\ pin = << >>
    /\ event = NoEvent
    /\ retPin = NoPin
    /\ retErr = NoResult
    /\ termOpen = FALSE
    /\ closeCalls = 0
    /\ flushed = NoFlush
    /\ trace = << >>

Init ==
    /\ InitCommon
    /\ script = << >>
    /\ calls = NoLog

InitScripted ==
    /\ InitCommon
    /\ script \in Scripts
    /\ calls = << >>

(***************************************************************************)
(* Lines 28-39 when termbox.Init succeeds: the terminal is acquired, Close *)
(* is deferred, the locals are initialised.                                *)
(***************************************************************************)
\* the locals as package-level variables, initialised once
InitSucceedsKeepsLocals ==
    /\ pc \in {"idle", "done"}
    /\ session < MaxSessions
    /\ \E p \in Prompts : prompt' = p
    /\ session' = session + 1
    /\ termOpen' = TRUE
    /\ closeCalls' = 0
    /\ IF session = 0
       THEN /\ cursorX' = InitialLocals.cursorX
            /\ cursorY' = InitialLocals.cursorY
            /\ pin' = InitialLocals.pin
       ELSE UNCHANGED <<cursorX, cursorY, pin>>
    /\ retPin' = NoPin
    /\ retErr' = NoResult
    /\ trace' = << >>
    /\ calls' = Started
    /\ pc' = "render"
    /\ UNCHANGED <<event, flushed, script>>

InitSucceeds ==
    /\ pc \in {"idle", "done"}
    /\ session < MaxSessions
    /\ \E p \in Prompts : prompt' = p
    /\ session' = session + 1
    /\ termOpen' = TRUE
    /\ closeCalls' = 0
    /\ cursorX' = InitialLocals.cursorX
    /\ cursorY' = InitialLocals.cursorY
    /\ pin' = InitialLocals.pin
    /\ retPin' = NoPin
    /\ retErr' = NoResult
    /\ trace' = << >>
    /\ calls' = Started
    /\ pc' = "render"
    /\ UNCHANGED <<event, flushed, script>>

\* a failing termbox.Init with the Close deferred before the error test
InitFailsThenCloses ==
    /\ pc \in {"idle", "done"}
    /\ session < MaxSessions
    /\ \E p \in Prompts : prompt' = p
    /\ session' = session + 1
    /\ closeCalls' = 1
    /\ retPin' = << >>
    /\ retErr' = ErrInit
    /\ trace' = << >>
    /\ calls' = IF calls = NoLog THEN NoLog ELSE <<"Init", "Close">>
    /\ pc' = "done"
    /\ UNCHANGED <<cursorX, cursorY, pin, event, termOpen, flushed, script>>

(***************************************************************************)
(* Lines 28-32 when termbox.Init fails: return "", err.  Nothing has been  *)
(* deferred, so no Close runs; the locals of lines 35-39 never exist.      *)
(***************************************************************************)
InitFails ==
    /\ pc \in {"idle", "done"}
    /\ session < MaxSessions
    /\ \E p \in Prompts : prompt' = p
    /\ session' = session + 1
    /\ closeCalls' = 0
    /\ retPin' = << >>
    /\ retErr' = ErrInit
    /\ trace' = << >>
    /\ calls' = Started
    /\ pc' = "done"
    /\ UNCHANGED <<cursorX, cursorY, pin, event, termOpen, flushed, script>>

(***************************************************************************)
(* Lines 66-86: the Render block, Clear ... SetCursor, Flush.  The frame   *)
(* is Frame of the prompt and the locals; flushed keeps those arguments    *)
(* and screen is the frame they give.                                      *)
(***************************************************************************)
Render ==
    /\ pc = "render"
    /\ flushed' = [prompt |-> prompt, pin |-> pin,
                    cursorX |-> cursorX, cursorY |-> cursorY]
    /\ calls' = Logged(RenderCalls)
    /\ pc' = "poll"
    /\ UNCHANGED <<session, prompt, cursorX, cursorY, pin, event, retPin,
                   retErr, termOpen, closeCalls, script, trace>>

(***************************************************************************)
(* Line 90: event := termbox.PollEvent().                                  *)
(***************************************************************************)
PollEvent(e) ==
    /\ pc = "poll"
    /\ event' = e
    /\ calls' = Logged(<<"PollEvent">>)
    /\ pc' = "update"
    /\ UNCHANGED <<session, prompt, cursorX, cursorY, pin, retPin, retErr,
                   termOpen, closeCalls, flushed>>

\* a live terminal delivers any event; a select is delivered only while
\* the accumulated PIN is shorter than MaxPinLen
PollAny ==
    /\ \E e \in Events :
        /\ (e.Type = EventKey /\ ~IsQuit(e) /\ e.Key = KeySpace)
              => Len(pin) < MaxPinLen
        /\ PollEvent(e)
    /\ UNCHANGED <<script, trace>>

\* a scripted terminal delivers the next event of its script
PollScripted ==
    /\ script # << >>
    /\ PollEvent(Head(script))
    /\ script' = Tail(script)
    /\ trace' = Append(trace, [event |-> Head(script), pin |-> pin,
                               cursorX |-> cursorX, cursorY |-> cursorY])

\* the test of the event type left out: every event is taken for a key
IgnoreNothing ==
    /\ pc = "update"
    /\ event.Type # EventKey
    /\ IF IsQuit(event)
       THEN /\ retPin' = << >>
            /\ retErr' = ErrUserCancelledInput
            /\ pc' = "deferred"
            /\ UNCHANGED event
       ELSE IF event.Key = KeyEnter
       THEN /\ retPin' = pin
            /\ retErr' = Nil
            /\ pc' = "deferred"
            /\ UNCHANGED event
       ELSE /\ event' = NoEvent
            /\ pc' = "render"
            /\ UNCHANGED <<retPin, retErr>>
    /\ UNCHANGED <<session, prompt, cursorX, cursorY, pin, termOpen,
                   closeCalls, flushed, script, trace, calls>>

\* a continue that goes back to the poll, not to the top of the loop
IgnoreSkipsRender ==
    /\ pc = "update"
    /\ event.Type # EventKey
    /\ event' = NoEvent
    /\ pc' = "poll"
    /\ UNCHANGED <<session, prompt, cursorX, cursorY, pin, retPin, retErr,
                   termOpen, closeCalls, flushed, script, trace, calls>>

(***************************************************************************)
(* Lines 91-93: an event that is not a key event; continue.                *)
(***************************************************************************)
Ignore ==
    /\ pc = "update"
    /\ event.Type # EventKey
    /\ event' = NoEvent
    /\ pc' = "render"
    /\ UNCHANGED <<session, prompt, cursorX, cursorY, pin, retPin, retErr,
                   termOpen, closeCalls, flushed, script, trace, calls>>

\* a cancel that hands the accumulated PIN back with the error
QuitLeaksPin ==
    /\ pc = "update"
    /\ event.Type = EventKey
    /\ IsQuit(event)
    /\ retPin' = pin
    /\ retErr' = ErrUserCancelledInput
    /\ pc' = "deferred"
    /\ UNCHANGED <<session, prompt, cursorX, cursorY, pin, event, termOpen,
                   closeCalls, flushed, script, trace, calls>>

(***************************************************************************)
(* Lines 95-97: return "", ErrUserCancelledInput.                          *)
(***************************************************************************)
Quit ==
    /\ pc = "update"
    /\ event.Type = EventKey
    /\ IsQuit(event)
    /\ retPin' = << >>
    /\ retErr' = ErrUserCancelledInput
    /\ pc' = "deferred"
    /\ UNCHANGED <<session, prompt, cursorX, cursorY, pin, event, termOpen,
                   closeCalls, flushed, script, trace, calls>>

\* a switch whose default case starts the PIN over
SwitchKeyDefaultResets(k, cx, cy, p) ==
    CASE k = KeyArrowUp -> [cursorX |-> cx, cursorY |-> cy - 1, pin |-> p]
      [] k = KeyArrowDown -> [cursorX |-> cx, cursorY |-> cy + 1, pin |-> p]
      [] k = KeyArrowLeft -> [cursorX |-> cx - 1, cursorY |-> cy, pin |-> p]
      [] k = KeyArrowRight -> [cursorX |-> cx + 1, cursorY |-> cy, pin |-> p]
      [] k = KeySpace ->
            [cursorX |-> cx, cursorY |-> cy,
             pin |-> Append(p, Press(cx, cy))]
      [] k \in {KeyBackspace, KeyBackspace2} ->
            [cursorX |-> cx, cursorY |-> cy,
             pin |-> Backspace(p)]
      [] OTHER -> [cursorX |-> cx, cursorY |-> cy, pin |-> << >>]

\* a switch whose select also moves the cursor to the next column
SwitchKeySelectAdvances(k, cx, cy, p) ==
    CASE k = KeyArrowUp -> [cursorX |-> cx, cursorY |-> cy - 1, pin |-> p]
      [] k = KeyArrowDown -> [cursorX |-> cx, cursorY |-> cy + 1, pin |-> p]
      [] k = KeyArrowLeft -> [cursorX |-> cx - 1, cursorY |-> cy, pin |-> p]
      [] k = KeyArrowRight -> [cursorX |-> cx + 1, cursorY |-> cy, pin |-> p]
      [] k = KeySpace ->
            [cursorX |-> cx + 1, cursorY |-> cy,
             pin |-> Append(p, Press(cx, cy))]
      [] k \in {KeyBackspace, KeyBackspace2} ->
            [cursorX |-> cx, cursorY |-> cy,
             pin |-> Backspace(p)]
      [] OTHER -> [cursorX |-> cx, cursorY |-> cy, pin |-> p]

(***************************************************************************)
(* Lines 99-113: the cases of the switch that fall through to the clamp.   *)
(* A key that matches no case changes nothing.                             *)
(***************************************************************************)
SwitchKey(k, cx, cy, p) ==
    CASE k = KeyArrowUp -> [cursorX |-> cx, cursorY |-> cy - 1, pin |-> p]
      [] k = KeyArrowDown -> [cursorX |-> cx, cursorY |-> cy + 1, pin |-> p]
      [] k = KeyArrowLeft -> [cursorX |-> cx - 1, cursorY |-> cy, pin |-> p]
      [] k = KeyArrowRight -> [cursorX |-> cx + 1, cursorY |-> cy, pin |-> p]
      [] k = KeySpace ->
            [cursorX |-> cx, cursorY |-> cy,
             pin |-> Append(p, Press(cx, cy))]
      [] k \in {KeyBackspace, KeyBackspace2} ->
            [cursorX |-> cx, cursorY |-> cy,
             pin |-> Backspace(p)]
      [] OTHER -> [cursorX |-> cx, cursorY |-> cy, pin |-> p]

Switch ==
    /\ pc = "update"
    /\ event.Type = EventKey
    /\ ~IsQuit(event)
    /\ event.Key # KeyEnter
    /\ LET s == SwitchKey(event.Key, cursorX, cursorY, pin)
       IN  /\ cursorX' = s.cursorX
           /\ cursorY' = s.cursorY
           /\ pin' = s.pin
    /\ pc' = "clamp"
    /\ UNCHANGED <<session, prompt, event, retPin, retErr, termOpen,
                   closeCalls, flushed, script, trace, calls>>

\* a submit that does nothing while the PIN is empty
SubmitNeedsDigits ==
    /\ pc = "update"
    /\ event.Type = EventKey
    /\ ~IsQuit(event)
    /\ event.Key = KeyEnter
    /\ IF pin = << >>
       THEN /\ pc' = "clamp"
            /\ UNCHANGED <<retPin, retErr>>
       ELSE /\ retPin' = pin
            /\ retErr' = Nil
            /\ pc' = "deferred"
    /\ UNCHANGED <<session, prompt, cursorX, cursorY, pin, event, termOpen,
                   closeCalls, flushed, script, trace, calls>>

\* a submit that refuses an empty PIN
SubmitRejectsEmpty ==
    /\ pc = "update"
    /\ event.Type = EventKey
    /\ ~IsQuit(event)
    /\ event.Key = KeyEnter
    /\ retPin' = pin
    /\ retErr' = IF pin = << >> THEN ErrUserCancelledInput ELSE Nil
    /\ pc' = "deferred"
    /\ UNCHANGED <<session, prompt, cursorX, cursorY, pin, event, termOpen,
                   closeCalls, flushed, script, trace, calls>>

(***************************************************************************)
(* Lines 114-115: return pin, nil.                                         *)
(***************************************************************************)
Submit ==
    /\ pc = "update"
    /\ event.Type = EventKey
    /\ ~IsQuit(event)
    /\ event.Key = KeyEnter
    /\ retPin' = pin
    /\ retErr' = Nil
    /\ pc' = "deferred"
    /\ UNCHANGED <<session, prompt, cursorX, cursorY, pin, event, termOpen,
                   closeCalls, flushed, script, trace, calls>>

(***************************************************************************)
(* Lines 118-119: clamp both axes; the iteration ends.                     *)
(***************************************************************************)
Clamp ==
    /\ pc = "clamp"
    /\ cursorY' = clamp(cursorY, 0, 2)
    /\ cursorX' = clamp(cursorX, 0, 2)
    /\ event' = NoEvent
    /\ pc' = "render"
    /\ UNCHANGED <<session, prompt, pin, retPin, retErr, termOpen,
                   closeCalls, flushed, script, trace, calls>>

\* a return on which no termbox.Close has been deferred
CloseMissing ==
    /\ pc = "deferred"
    /\ pc' = "done"
    /\ UNCHANGED <<session, prompt, cursorX, cursorY, pin, event, retPin,
                   retErr, termOpen, closeCalls, flushed, script, trace,
                   calls>>

\* a return that flushes once more after the deferred Close
CloseThenFlush ==
    /\ pc = "deferred"
    /\ termOpen' = FALSE
    /\ closeCalls' = closeCalls + 1
    /\ calls' = Logged(<<"Close", "Flush">>)
    /\ pc' = "done"
    /\ UNCHANGED <<session, prompt, cursorX, cursorY, pin, event, retPin,
                   retErr, flushed, script, trace>>

(***************************************************************************)
(* Line 33: the deferred termbox.Close runs; GetPIN returns.               *)
(***************************************************************************)
Close ==
    /\ pc = "deferred"
    /\ termOpen' = FALSE
    /\ closeCalls' = closeCalls + 1
    /\ calls' = Logged(<<"Close">>)
    /\ pc' = "done"
    /\ UNCHANGED <<session, prompt, cursorX, cursorY, pin, event, retPin,
                   retErr, flushed, script, trace>>

(***************************************************************************)
(* Specifications: a live terminal (Spec) and a scripted one.              *)
(***************************************************************************)
Next ==
    \/ InitSucceeds
    \/ InitFails
    \/ Render
    \/ PollAny
    \/ Ignore
    \/ Quit
    \/ Switch
    \/ Submit
    \/ Clamp
    \/ Close

Spec == Init /\ [][Next]_vars

NextScripted ==
    \/ InitSucceeds
    \/ InitFails
    \/ Render
    \/ PollScripted
    \/ Ignore
    \/ Quit
    \/ Switch
    \/ Submit
    \/ Clamp
    \/ Close

SpecScripted == InitScripted /\ [][NextScripted]_vars

\* GetPIN runs on one goroutine that, once called, keeps running: every
\* step inside the call is taken when it can be, and PollEvent returns when
\* the terminal has an event.  Calling GetPIN is up to the caller.
Running ==
    \/ Render
    \/ PollScripted
    \/ Ignore
    \/ Quit
    \/ Switch
    \/ Submit
    \/ Clamp
    \/ Close

SpecScriptedFair == SpecScripted /\ WF_vars(Running)

(***************************************************************************)
(* Properties.                                                             *)
(***************************************************************************)
InRange(v) == v \in 0..2

\* the events delivered so far by the scripted terminal in this call
TraceEvents == [i \in 1..Len(trace) |-> trace[i].event]

\* <<row, column>> of the cursor at each delivery
TraceCursor == [i \in 1..Len(trace) |-> <<trace[i].cursorY, trace[i].cursorX>>]

\* the accumulated PIN at each delivery
TracePin == [i \in 1..Len(trace) |-> trace[i].pin]

\* C1 as stated: cursorX and cursorY are within [0,2] in every state, the
\* state between the increment / decrement and the clamp included.
C1_NoTransientOutOfRange == InRange(cursorX) /\ InRange(cursorY)

\* C1 amended: cursorX and cursorY are within [0,2] wherever the cursor is
\* read (render, poll, the keypad lookup, the returns); between the
\* increment / decrement of an axis and the clamp that axis is within
\* [-1,3] and the other axis within [0,2].
C1_CursorInRangeOutsideClamp ==
    /\ pc # "clamp" => InRange(cursorX) /\ InRange(cursorY)
    /\ pc = "clamp" =>
          /\ cursorX \in -1..3
          /\ cursorY \in -1..3
          /\ InRange(cursorX) \/ InRange(cursorY)

C1_Witness ==
    /\ pc = "clamp"
    /\ event = KeyPress(KeyArrowDown)
    /\ cursorY = 3
    /\ cursorX = 0

\* C2 as stated: a call that received exactly [down, right, select, up,
\* left, select, select, enter] started with the cursor at (0,0), moved
\* through (1,0), (1,1), (0,1), (0,0), appended '5', '7', '7' and returned
\* "577" and no error.
C2_Scenario577 ==
    (pc = "done" /\ TraceEvents = Scenario1) =>
        /\ TraceCursor = << <<0, 0>>, <<1, 0>>, <<1, 1>>, <<1, 1>>, <<0, 1>>,
                           <<0, 0>>, <<0, 0>>, <<0, 0>> >>
        /\ TracePin = << << >>, << >>, << >>, <<"5">>, <<"5">>, <<"5">>,
                        <<"5", "7">>, <<"5", "7", "7">> >>
        /\ retPin = <<"5", "7", "7">>
        /\ retErr = Nil

\* C2 amended: a call that received exactly [down, right, select, up, left,
\* select, select, enter] started with the cursor at (1,1), moved through
\* (2,1), (2,2), (1,2), (1,1), appended '3', '5', '5' and returned "355"
\* and no error.
C2_Scenario355 ==
    (pc = "done" /\ TraceEvents = Scenario1) =>
        /\ TraceCursor = << <<1, 1>>, <<2, 1>>, <<2, 2>>, <<2, 2>>, <<1, 2>>,
                           <<1, 1>>, <<1, 1>>, <<1, 1>> >>
        /\ TracePin = << << >>, << >>, << >>, <<"3">>, <<"3">>, <<"3">>,
                        <<"3", "5">>, <<"3", "5", "5">> >>
        /\ retPin = <<"3", "5", "5">>
        /\ retErr = Nil

C2_Witness ==
    /\ pc = "done"
    /\ TraceEvents = Scenario1
    /\ retPin = <<"3", "5", "5">>

\* C3 as stated: every call of GetPIN that has returned, a failed
\* termbox.Init included, has called termbox.Close exactly once.
C3_CloseOnceOnEveryExit == pc = "done" => closeCalls = 1

\* C3 amended: a call that returned after a submit or a cancel has called
\* termbox.Close exactly once, at its return and not before; a call that
\* returned because termbox.Init failed has not called it.
C3_CloseOnceAfterAcquire ==
    /\ (pc = "done" /\ retErr \in {Nil, ErrUserCancelledInput}) =>
          closeCalls = 1 /\ ~termOpen
    /\ (pc = "done" /\ retErr = ErrInit) => closeCalls = 0
    /\ pc \in {"render", "poll", "update", "clamp", "deferred"} =>
          closeCalls = 0 /\ termOpen

C3_Witness ==
    /\ pc = "done"
    /\ retErr = ErrUserCancelledInput
    /\ closeCalls = 1
    /\ session = 2

\* the event being handled is a key event that is not a quit
HandlingKey(k) ==
    /\ pc = "update"
    /\ event.Type = EventKey
    /\ ~IsQuit(event)
    /\ event.Key = k

\* the digit the claim assigns to (row r, column c)
DigitAt(r, c) ==
    CASE <<r, c>> = <<0, 0>> -> "7"
      [] <<r, c>> = <<0, 1>> -> "8"
      [] <<r, c>> = <<0, 2>> -> "9"
      [] <<r, c>> = <<1, 0>> -> "4"
      [] <<r, c>> = <<1, 1>> -> "5"
      [] <<r, c>> = <<1, 2>> -> "6"
      [] <<r, c>> = <<2, 0>> -> "1"
      [] <<r, c>> = <<2, 1>> -> "2"
      [] <<r, c>> = <<2, 2>> -> "3"

\* C4: handling a select (space) with the cursor at (row r, column c)
\* makes the accumulated PIN one character longer, the new last character
\* is the digit of (r,c) and the characters before it are unchanged.
C4_SelectAppendsDigit ==
    [][HandlingKey(KeySpace) =>
          /\ Len(pin') = Len(pin) + 1
          /\ pin'[Len(pin')] = DigitAt(cursorY, cursorX)
          /\ SubSeq(pin', 1, Len(pin)) = pin]_vars

C4_Witness ==
    /\ pc = "clamp"
    /\ event = KeyPress(KeySpace)
    /\ cursorY = 2
    /\ cursorX = 0
    /\ pin = <<"9", "1">>

\* the last event the scripted terminal delivered, NoEvent if none
LastDelivered ==
    IF trace = << >> THEN NoEvent ELSE trace[Len(trace)].event

\* the accumulated PIN when the last event was delivered
PinAtLastDelivery == trace[Len(trace)].pin

\* C5: a call ended by a quit event ('q' or Ctrl-C) has the results "" and
\* ErrUserCancelledInput, whatever PIN was accumulated; so has the call
\* that received [select, backspace, select, quit].
C5_QuitReturnsNoPin ==
    /\ (pc \in {"deferred", "done"} /\ trace # << >> /\ IsQuit(LastDelivered)) =>
          retPin = << >> /\ retErr = ErrUserCancelledInput
    /\ (pc = "done" /\ TraceEvents = Scenario2) =>
          retPin = << >> /\ retErr = ErrUserCancelledInput

C5_Witness ==
    /\ pc = "done"
    /\ TraceEvents = Scenario2
    /\ pin # << >>
    /\ retPin = << >>
    /\ retErr = ErrUserCancelledInput

\* C6: a call ended by a submit (enter) event has as results the PIN
\* accumulated when the event was delivered and no error; if the submit was
\* the first event the PIN returned is the empty string.
C6_SubmitReturnsPin ==
    (pc \in {"deferred", "done"} /\ trace # << >> /\ LastDelivered = Enter) =>
        /\ retPin = PinAtLastDelivery
        /\ retErr = Nil
        /\ Len(trace) = 1 => retPin = << >>

C6_Witness ==
    /\ pc = "done"
    /\ TraceEvents = <<Enter>>
    /\ retPin = << >>
    /\ retErr = Nil

\* C7: handling a delete (either backspace key) leaves an empty PIN empty
\* and makes a non-empty PIN one character shorter, the characters before
\* the last one staying in place.
C7_DeleteDropsLast ==
    [][(HandlingKey(KeyBackspace) \/ HandlingKey(KeyBackspace2)) =>
          /\ pin = << >> => pin' = << >>
          /\ pin # << >> =>
                /\ Len(pin') = Len(pin) - 1
                /\ \A i \in 1..Len(pin') : pin'[i] = pin[i]]_vars

C7_Witness ==
    /\ pc = "clamp"
    /\ event = KeyPress(KeyBackspace2)
    /\ pin = <<"9">>
    /\ flushed.pin = <<"9", "1">>

\* the last three events delivered were select, delete, delete and the
\* iteration of the last one is over
AfterSelectDeleteDelete ==
    /\ pc = "render"
    /\ Len(trace) >= 3
    /\ SubSeq(TraceEvents, Len(trace) - 2, Len(trace)) = <<Select, Delete, Delete>>

\* the accumulated PIN when that select was delivered
PinBeforeSelect == trace[Len(trace) - 2].pin

\* C8 as stated: after select, delete, delete the accumulated PIN is the
\* PIN from before the select.
C8_SelectDeleteDeleteIsIdentity ==
    AfterSelectDeleteDelete => pin = PinBeforeSelect

\* C8 amended: after select, delete, delete the accumulated PIN is the PIN
\* from before the select without its last character, which is the PIN
\* from before the select only if that was empty.
C8_SelectDeleteDeleteDropsOne ==
    AfterSelectDeleteDelete =>
        /\ PinBeforeSelect = << >> => pin = << >>
        /\ PinBeforeSelect # << >> =>
              pin = SubSeq(PinBeforeSelect, 1, Len(PinBeforeSelect) - 1)

C8_Witness ==
    /\ AfterSelectDeleteDelete
    /\ PinBeforeSelect = <<"5">>
    /\ pin = << >>

\* C9: a call that acquired the terminal and has left the loop left it on
\* a key event that is either a quit ('q' / Ctrl-C), returning
\* ErrUserCancelledInput, or an enter, returning no error, and not both.
C9_ExitOnlyOnSubmitOrCancel ==
    (pc \in {"deferred", "done"} /\ retErr # ErrInit) =>
        /\ event.Type = EventKey
        /\ IsQuit(event) # (event.Key = KeyEnter)
        /\ IsQuit(event) <=> retErr = ErrUserCancelledInput
        /\ event.Key = KeyEnter <=> retErr = Nil

C9_Witness ==
    /\ pc = "done"
    /\ event = KeyPress(KeyCtrlC)
    /\ retErr = ErrUserCancelledInput
    /\ pin = <<"4", "6">>

\* the characters on the keypad
KeypadDigits == {"1", "2", "3", "4", "5", "6", "7", "8", "9"}

\* C10: every character of the accumulated PIN is one of '1'..'9'.
C10_PinHoldsKeypadDigits == \A i \in 1..Len(pin) : pin[i] \in KeypadDigits

C10_Witness ==
    /\ pc = "poll"
    /\ pin = <<"1", "9">>

\* the row of the PIN field of a frame: the runes at columns 0, 1, ...
PinRow(f) ==
    LET cols == {p[1] : p \in {q \in DOMAIN f.cells : q[2] = 6}}
    IN  [i \in 1..Cardinality(cols) |-> f.cells[<<i - 1, 6>>]]

\* a PIN of n digits that are all '1'
Ones(n) == [i \in 1..n |-> "1"]

\* C11: the frame on display while GetPIN waits for an event has in the row
\* of the PIN field the label "PIN: " and then one mask glyph per
\* accumulated digit, in adjacent columns from column 0, and nothing else;
\* the whole frame is the frame of the same prompt and cursor with any
\* other PIN of the same length.
C11_FrameShowsOnlyPinLength ==
    pc = "poll" =>
        LET f == screen
        IN  /\ flushed.pin = pin
            /\ {p \in DOMAIN f.cells : p[2] = 6}
                  = {<<x, 6>> : x \in 0..(Len(PinLabel) + Len(pin) - 1)}
            /\ PinRow(f) = PinLabel \o [i \in 1..Len(pin) |-> "●"]
            /\ f = Frame(prompt, Ones(Len(pin)), cursorX, cursorY)

C11_Witness ==
    /\ pc = "poll"
    /\ pin = <<"7", "3">>
    /\ PinRow(screen) = <<"P", "I", "N", ":", " ", "●", "●">>

\* C12: a call of GetPIN whose termbox.Init failed has returned "" and that
\* error, and termbox.Init is the only call it made on the terminal: no
\* Clear, printStr, SetCursor, Flush, PollEvent (or Close).
C12_InitFailureReturnsAtOnce ==
    (pc = "done" /\ retErr = ErrInit) =>
        /\ retPin = << >>
        /\ calls = <<"Init">>
        /\ trace = << >>

C12_Witness ==
    /\ pc = "done"
    /\ retErr = ErrInit
    /\ retPin = << >>
    /\ calls = <<"Init">>
    /\ session = 2
    /\ flushed # NoFlush

\* the transition table of the controller, one event applied to the locals
\* l = [cursorX, cursorY, pin]: an arrow moves its own axis by one and
\* stops at 0 and 2, a select appends the digit under the cursor, a delete
\* drops the last digit, every other event changes nothing
RefStep(e, l) ==
    IF e.Type # EventKey \/ IsQuit(e) THEN l
    ELSE CASE e.Key = KeyArrowUp ->
                [l EXCEPT !.cursorY = IF @ > 0 THEN @ - 1 ELSE 0]
           [] e.Key = KeyArrowDown ->
                [l EXCEPT !.cursorY = IF @ < 2 THEN @ + 1 ELSE 2]
           [] e.Key = KeyArrowLeft ->
                [l EXCEPT !.cursorX = IF @ > 0 THEN @ - 1 ELSE 0]
           [] e.Key = KeyArrowRight ->
                [l EXCEPT !.cursorX = IF @ < 2 THEN @ + 1 ELSE 2]
           [] e.Key = KeySpace ->
                [l EXCEPT !.pin = @ \o <<DigitAt(l.cursorY, l.cursorX)>>]
           [] e.Key \in {KeyBackspace, KeyBackspace2} ->
                [l EXCEPT !.pin = IF @ = << >> THEN @
                                  ELSE SubSeq(@, 1, Len(@) - 1)]
           [] OTHER -> l

\* the locals now, and the locals when the i-th event was delivered
Locals == [cursorX |-> cursorX, cursorY |-> cursorY, pin |-> pin]

LocalsAt(i) ==
    [cursorX |-> trace[i].cursorX, cursorY |-> trace[i].cursorY,
     pin |-> trace[i].pin]

\* an event that ends the call
IsTerminating(e) ==
    e.Type = EventKey /\ (IsQuit(e) \/ e.Key = KeyEnter)

\* n times: one complete render, then one poll
Rounds(n) ==
    LET round == <<"Clear", "printStr", "printStr", "printStr", "printStr",
                   "printStr", "printStr", "printStr", "printStr",
                   "printStr", "SetCursor", "Flush", "PollEvent">>
    IN  [i \in 1..(n * Len(round)) |-> round[((i - 1) % Len(round)) + 1]]

OneRender ==
    <<"Clear", "printStr", "printStr", "printStr", "printStr", "printStr",
      "printStr", "printStr", "printStr", "printStr", "SetCursor", "Flush">>

SurfaceCalls == {"Clear", "printStr", "SetCursor", "Flush", "PollEvent"}

\* C14: in the calls of a call of GetPIN the first is the Init and the only
\* Init; a Clear, printStr (SetCell), SetCursor, Flush or PollEvent is made
\* only if that Init succeeded, while the terminal is open, and none
\* follows the Close; when the PIN or ErrUserCancelledInput has reached
\* the caller the Close is the last call made and the terminal is
\* released.
C14_CallsBetweenInitAndClose ==
    /\ calls # << >> => calls[1] = "Init"
    /\ \A i \in 2..Len(calls) :
          /\ calls[i] \in SurfaceCalls \cup {"Close"}
          /\ retErr # ErrInit
          /\ calls[i] = "Close" => i = Len(calls) /\ pc = "done"
    /\ (calls # << >> /\ calls[Len(calls)] \in SurfaceCalls) =>
          termOpen /\ pc \in {"render", "poll", "update", "clamp", "deferred"}
    /\ retErr \in {Nil, ErrUserCancelledInput} =>
          \/ pc = "deferred" /\ termOpen
          \/ pc = "done" /\ ~termOpen /\ calls[Len(calls)] = "Close"

C14_Witness ==
    /\ pc = "done"
    /\ retErr = ErrUserCancelledInput
    /\ calls = <<"Init">> \o Rounds(2) \o <<"Close">>
    /\ ~termOpen

ArrowKeys == {KeyArrowUp, KeyArrowDown, KeyArrowLeft, KeyArrowRight}

\* the event in hand is not a key event, or is a key event that is none of
\* quit, arrow, space, backspace, enter
EventIsIgnored ==
    \/ event.Type \notin {EventKey, EventNone}
    \/ /\ event.Type = EventKey
       /\ ~IsQuit(event)
       /\ event.Key \notin
             ArrowKeys \cup {KeySpace, KeyBackspace, KeyBackspace2, KeyEnter}

\* C15: handling a non-key event or an unrecognised key event, up to the
\* end of the loop iteration (the clamp included), leaves cursorX, cursorY
\* and pin unchanged, sets no result and no error, and goes on to the next
\* render.
C15_IgnoredEventChangesNothing ==
    [][(pc \in {"update", "clamp"} /\ EventIsIgnored) =>
          /\ UNCHANGED <<cursorX, cursorY, pin, retPin, retErr, termOpen>>
          /\ pc' \in {"clamp", "render"}
          /\ pc = "clamp" => pc' = "render"]_vars

C15_Witness ==
    /\ pc = "clamp"
    /\ event = KeyPress(KeyTab)
    /\ pin = <<"8", "2">>
    /\ cursorX = 1
    /\ cursorY = 2
    /\ retErr = NoResult

\* the event in hand is a key event, not a quit, with a key of ks
EventKeyIn(ks) ==
    /\ pc \in {"update", "clamp"}
    /\ event.Type = EventKey
    /\ ~IsQuit(event)
    /\ event.Key \in ks

\* C16: inside a running call of GetPIN a step changes cursorX or cursorY
\* only while an arrow key event is handled and changes pin only while a
\* select or delete event is handled; handling an arrow key event (its
\* clamp included) leaves pin unchanged, and handling a select or delete
\* (its clamp included) leaves cursorX and cursorY unchanged.
C16_CursorAndPinChangeOnOwnEvents ==
    [][pc \notin {"idle", "done"} =>
          /\ (cursorX' # cursorX \/ cursorY' # cursorY) => EventKeyIn(ArrowKeys)
          /\ pin' # pin =>
                EventKeyIn({KeySpace, KeyBackspace, KeyBackspace2})
          /\ EventKeyIn(ArrowKeys) => pin' = pin
          /\ EventKeyIn({KeySpace, KeyBackspace, KeyBackspace2}) =>
                cursorX' = cursorX /\ cursorY' = cursorY]_vars

C16_Witness ==
    /\ pc = "clamp"
    /\ event = KeyPress(KeyArrowLeft)
    /\ cursorX = 0
    /\ flushed.cursorX = 1
    /\ pin = <<"5", "4">>
    /\ flushed.pin = <<"5", "4">>

Max2(a, b) == IF a >= b THEN a ELSE b

Min2(a, b) == IF a <= b THEN a ELSE b

\* the reference: only the moved axis changes, and it saturates
RefRow(k, row) ==
    IF k = KeyArrowUp THEN Max2(row - 1, 0)
    ELSE IF k = KeyArrowDown THEN Min2(row + 1, 2)
    ELSE row

RefColumn(k, column) ==
    IF k = KeyArrowLeft THEN Max2(column - 1, 0)
    ELSE IF k = KeyArrowRight THEN Min2(column + 1, 2)
    ELSE column

\* C17: with the cursor on display (the cursor the event was polled at)
\* as the state before, the cursor at the end of the iteration of a key
\* event, after the change of one axis and the clamp of both, is the
\* cursor of the reference that saturates the moved axis only; an event
\* that does not reach the clamp leaves the cursor as it is.
C17_ClampBothEqualsSaturateOne ==
    [][/\ pc \in {"poll", "update"} =>
             flushed.cursorX = cursorX /\ flushed.cursorY = cursorY
       /\ pc = "clamp" =>
             /\ cursorY' = RefRow(event.Key, flushed.cursorY)
             /\ cursorX' = RefColumn(event.Key, flushed.cursorX)
       /\ (pc = "update" /\ pc' # "clamp") =>
             cursorX' = cursorX /\ cursorY' = cursorY]_vars

C17_Witness ==
    /\ pc = "clamp"
    /\ event = KeyPress(KeyArrowUp)
    /\ flushed.cursorY = 0
    /\ cursorY = -1
    /\ cursorX = 2

\* the events still to come hold a submit or a quit key event
TerminatorAhead == \E i \in 1..Len(script) : IsTerminating(script[i])

\* a call that acquired the terminal has left the loop
LoopLeft == pc \in {"deferred", "done"} /\ retErr # ErrInit

\* C18: a running call whose event stream holds a submit or quit key event
\* returns; a call that has left the loop has polled such an event, as the
\* last event it polled and the only one of its kind (so a stream without
\* one is never returned from), its results are those of that event and
\* the PIN accumulated when it was delivered, and it polls no event after.
C18_EndsAtFirstTerminator ==
    /\ []((pc = "render" /\ TerminatorAhead) => <>(pc = "done"))
    /\ [](IF LoopLeft
          THEN /\ trace # << >>
               /\ IsTerminating(trace[Len(trace)].event)
               /\ \A i \in 1..(Len(trace) - 1) :
                     ~IsTerminating(trace[i].event)
               /\ IsQuit(trace[Len(trace)].event) =>
                     retPin = << >> /\ retErr = ErrUserCancelledInput
               /\ ~IsQuit(trace[Len(trace)].event) =>
                     retPin = trace[Len(trace)].pin /\ retErr = Nil
          ELSE TRUE)
    /\ [][(LoopLeft /\ session' = session) =>
            script' = script /\ trace' = trace]_vars

C18_Witness ==
    /\ pc = "done"
    /\ TraceEvents = <<Select, QuitCtrlC>>
    /\ script = <<Enter, Down>>
    /\ retErr = ErrUserCancelledInput

\* the cells of the keypad block: columns 3..5 of rows 2..4
KeypadBlock == (3..5) \X (2..4)

\* C19: in the frame on display after a flush the terminal cursor is at
\* column cursorX+3, row cursorY+2, a cell of the 3x3 block of glyphs drawn
\* at columns 3..5 of rows 2..4 (the only cells drawn in those rows), and
\* the digit a select appends from the cursor is the digit of the keypad
\* position (row, column) = (cursor row - 2, cursor column - 3).
C19_CursorOnSelectedCell ==
    pc = "poll" =>
        LET f == screen
        IN  /\ f.cursor = <<cursorX + 3, cursorY + 2>>
            /\ f.cursor \in KeypadBlock
            /\ {p \in DOMAIN f.cells : p[2] \in 2..4} = KeypadBlock
            /\ \A p \in KeypadBlock : f.cells[p] = "●"
            /\ Press(cursorX, cursorY)
                  = DigitAt(f.cursor[2] - 2, f.cursor[1] - 3)

C19_Witness ==
    /\ pc = "poll"
    /\ screen.cursor = <<5, 2>>
    /\ Press(cursorX, cursorY) = "9"
    /\ pin = <<"1">>

\* the locals after the events es are handled from the locals l
RECURSIVE Replay(_, _)
Replay(es, l) ==
    IF es = << >> THEN l ELSE Replay(Tail(es), RefStep(Head(es), l))

\* the results of a call that polled the events es, the last of them the
\* one that ended it
ResultOf(es) ==
    LET last == es[Len(es)]
        l == Replay(SubSeq(es, 1, Len(es) - 1),
                    [cursorX |-> 1, cursorY |-> 1, pin |-> << >>])
    IN  IF IsQuit(last) THEN <<<< >>, ErrUserCancelledInput>>
        ELSE <<l.pin, Nil>>

\* C20: a call that acquired the terminal starts with the cursor at row 1,
\* column 1 and an empty accumulated PIN, whatever the calls before it
\* did; a select as its first event gives the PIN "5"; its locals at every
\* render are those the events it has polled give from that start, and its
\* results are those its polled events give from that start.
C20_SessionsStartFresh ==
    /\ (pc = "render" /\ trace = << >>) =>
          cursorX = 1 /\ cursorY = 1 /\ pin = << >>
    /\ (pc = "clamp" /\ TraceEvents = <<Select>>) => pin = <<"5">>
    /\ pc = "render" =>
          Locals = Replay(TraceEvents,
                          [cursorX |-> 1, cursorY |-> 1, pin |-> << >>])
    /\ LoopLeft => <<retPin, retErr>> = ResultOf(TraceEvents)

C20_Witness ==
    /\ session = 2
    /\ pc = "render"
    /\ trace = << >>
    /\ flushed.cursorY = 2
    /\ flushed.pin = <<"2">>
    /\ cursorY = 1
    /\ pin = << >>

====
